---- MODULE Spec2Model ----
(***************************************************************************)
(* The download engine of idm-go: the DownloadManager (registry of live    *)
(* jobs, queue, admission loop, statistics loop), the job runner           *)
(* executeDownload with its two transfer modes, and the store rows the     *)
(* manager reads and writes.                                               *)
(*                                                                         *)
(* Goroutines are interleaved at the granularity of the statements that    *)
(* touch shared state.  The manager's public operations (AddDownload,      *)
(* StartDownload, PauseDownload, CancelDownload) and one tick of each      *)
(* background loop are one action each; a runner and its chunk tasks are   *)
(* split into the steps between which other goroutines can observe them.   *)
(* The statistics loop is modelled twice: UpdateStats is a whole tick, and *)
(* StatsLoop takes the tick one statement at a time, with the read lock it *)
(* holds and the UPDATE whose arguments it has read but not yet sent. The  *)
(* rate limiter and the range arithmetic of downloadWithChunks are also    *)
(* modelled on their own, driven by a caller that draws their inputs; the  *)
(* runners transfer with MaxSpeed 0, as DefaultConfig sets it.             *)
(*                                                                         *)
(* Not modelled: filesystem failures (os.Create, Truncate, Write and       *)
(* WriteAt always succeed), and the speed updateStats computes (a function *)
(* of wall-clock time: the records the manager holds keep the speed they   *)
(* were loaded with).  A subscriber's callback is modelled up to its       *)
(* launch by notifyCallbacks.                                              *)
(***************************************************************************)
EXTENDS Integers, Sequences, FiniteSets, TLC

\* ------------------------------------------------------------- bounds
\* Records that AddDownload may create in the lifecycle specification.
MaxRecords == 1
\* Jobs that StartDownload may create in the lifecycle specification.
MaxJobs == 2
\* Records and jobs in the ranged specification.
RangedRecords == 1
RangedJobs == 1
\* Records (and jobs) in the admission specification.
AdmRecords == 4
\* Chunks of a record in the ranged specification.  AddDownload stores
\* AddedChunks; the ranged specification keeps the count small so that the
\* chunk tasks can be interleaved.
DefaultChunks == 2
\* Records in the liveness specification.
LiveRecords == 3
\* Records and jobs in the specification of refused calls.
CallRecords == 1
CallJobs == 2
\* Records, jobs and subscribers in the specification of events.
EventRecords == 1
EventJobs == 1
MaxCallbacks == 1
\* Rows in the specification of the store round trip.
StoreRecords == 1
\* Records in the specification of AddDownload.
AddRecords == 4
\* How many sizes above each threshold the range arithmetic is given.
LayoutSpan == 8
\* Records and jobs in the specification of the statistics loop.
StatsRecords == 1
StatsJobs == 1
\* The largest whole number of KiB per second in a configured speed limit.
MaxKiB == 3

\* -------------------------------------------------- program constants
\* DefaultConfig().MaxConcurrentDownloads
MaxConcurrentDownloads == 3
\* DefaultConfig().ChunkSize: the threshold above which ranged mode is used.
ChunkSize == 1024 * 1024
\* The chunk count AddDownload gives a new record.
AddedChunks == 4
\* SQL NULL in a TEXT column.
Null == "<NULL>"
\* The largest chunk count the add dialog offers.
MaxChunks == 16
\* The smallest chunk-size threshold the settings window accepts.
MinChunkSize == 1024
\* time.Second, in nanoseconds.
Second == 1000000000
\* The divisor newRateLimitedReader applies to its limit.
LimiterUnit == 1024

\* Content-Length values the origin reports: one below the threshold
\* (single-stream mode) and one above it that DefaultChunks does not divide.
SmallSize == 512
BigSize == ChunkSize + 2 * DefaultChunks + 1

\* How far the body of a response may differ from the length asked for.
BodyDeltas == {-1, 0, 1}
\* What the origin does with a GET: it fails it, or it sends a body.
OriginAnswers ==
    {[fail |-> TRUE, delta |-> 0]} \cup {[fail |-> FALSE, delta |-> x] : x \in BodyDeltas}
\* An origin whose every request succeeds with the body asked for.
HonestAnswers == {[fail |-> FALSE, delta |-> 0]}
\* An origin that fails a request or sends the body asked for.
ExactAnswers == HonestAnswers \cup {[fail |-> TRUE, delta |-> 0]}

VARIABLES
    store,            \* the downloads table: id -> row
    nextId,           \* the id the next INSERT receives
    queue,            \* Queue.items: the records AddDownload enqueued
    jobs,             \* every DownloadJob created so far, in creation order
    downloads,        \* dm.downloads: record id -> index of the registered job
    activeDownloads,  \* dm.activeDownloads
    files,            \* id -> whether a file exists at path/filename
    crashed,          \* a goroutine panicked: the process is gone
    lastOp,           \* history: the pause or cancel issued on each id since its last start
    errorDefault,     \* what the table gives the error column of an inserted row
    callbacks,        \* len(dm.callbacks): the subscribers registered so far
    events,           \* history: the callback invocations notifyCallbacks has launched
    ret,              \* history: the last manager call that returned an error
    trip,             \* a caller taking one record through SaveDownload, GetDownload, UpdateDownload
    stats,            \* the updateStats goroutine: its position in a tick, the read lock, the UPDATE it is about to send
    layout,           \* a caller of downloadWithChunks' range arithmetic: size, chunk count, the ranges built
    limiter           \* a caller of newRateLimitedReader: the limit passed, the ticker its goroutine made

vars == <<store, nextId, queue, jobs, downloads, activeDownloads, files, crashed, lastOp,
          errorDefault, callbacks, events, ret, trip, stats, layout, limiter>>

\* ------------------------------------------------------------ helpers
\* float64(Downloaded) / float64(Size) * 100, kept as the exact ratio; the
\* value is 100.0 exactly when numerator and denominator agree.
Ratio(a, b) == IF a = b THEN [n |-> 1, d |-> 1]
               ELSE IF a = 0 THEN [n |-> 0, d |-> 1]
               ELSE [n |-> a, d |-> b]
ProgressZero == Ratio(0, 1)
ProgressFull == Ratio(1, 1)
IsFull(p) == p.n = p.d

RECURSIVE SumSeq(_)
SumSeq(s) == IF s = <<>> THEN 0 ELSE Head(s) + SumSeq(Tail(s))

\* ---------------------------------------------------------- the store
\* The Download a caller builds: size, status and chunks as given, every
\* other field at its zero value.
NewDownload(size, status, chunks) ==
    [Size |-> size, Downloaded |-> 0, Status |-> status, Speed |-> 0,
     Progress |-> ProgressZero, StartedAt |-> FALSE, CompletedAt |-> FALSE,
     Error |-> "", Chunks |-> chunks]

\* SaveDownload without the chunks column, which then takes the table's
\* default.
SaveDownloadDefaultChunks(st, id, d) ==
    [i \in DOMAIN st \cup {id} |->
        IF i = id
        THEN [Size |-> d.Size, Downloaded |-> d.Downloaded, Status |-> d.Status,
              Speed |-> 0, Progress |-> ProgressZero, StartedAt |-> FALSE,
              CompletedAt |-> FALSE, Error |-> errorDefault, Chunks |-> 1]
        ELSE st[i]]

\* SaveDownload: INSERT of url, filename, path, size, downloaded, status,
\* chunks, created_at from the record; the other columns take the table's
\* defaults (speed 0, progress 0, started_at and completed_at NULL, error
\* whatever the table says).
SaveDownload(st, id, d) ==
    [i \in DOMAIN st \cup {id} |->
        IF i = id
        THEN [Size |-> d.Size, Downloaded |-> d.Downloaded, Status |-> d.Status,
              Speed |-> 0, Progress |-> ProgressZero, StartedAt |-> FALSE,
              CompletedAt |-> FALSE, Error |-> errorDefault, Chunks |-> d.Chunks]
        ELSE st[i]]

\* UpdateDownload: overwrites downloaded, status, speed, progress,
\* started_at, completed_at and error of the row with the record's id (no
\* row: no-op).
UpdateDownload(st, id, d) ==
    [i \in DOMAIN st |->
        IF i = id
        THEN [st[i] EXCEPT !.Downloaded = d.Downloaded, !.Status = d.Status,
                           !.Speed = d.Speed,
                           !.Progress = d.Progress, !.StartedAt = d.StartedAt,
                           !.CompletedAt = d.CompletedAt, !.Error = d.Error]
        ELSE st[i]]

\* GetDownload returns an error when no row has the id (sql.ErrNoRows) and
\* when the row's error column is NULL (Scan cannot convert NULL to the
\* string field).
GetDownloadOk(st, id) ==
    /\ id \in DOMAIN st
    /\ st[id].Error /= Null

\* GetDownload: the row as a fresh in-memory record.
GetDownload(st, id) ==
    [Size |-> st[id].Size, Downloaded |-> st[id].Downloaded,
     Status |-> st[id].Status, Speed |-> st[id].Speed,
     Progress |-> st[id].Progress, StartedAt |-> st[id].StartedAt,
     CompletedAt |-> st[id].CompletedAt, Error |-> st[id].Error,
     Chunks |-> st[id].Chunks]

\* ---------------------------------------------------------- the queue
\* Queue.Add: append.
QueueAdd(q, item) == Append(q, item)

\* Queue.Next taking the last Pending item instead of the first.
QueueNextIndexLast(q) ==
    IF \E i \in 1..Len(q) : q[i].Status = "Pending"
    THEN CHOOSE i \in 1..Len(q) :
            /\ q[i].Status = "Pending"
            /\ \A k \in (i + 1)..Len(q) : q[k].Status /= "Pending"
    ELSE 0

\* Queue.Next: the index of the first item whose Status is Pending, 0 if none.
QueueNextIndex(q) ==
    IF \E i \in 1..Len(q) : q[i].Status = "Pending"
    THEN CHOOSE i \in 1..Len(q) :
            /\ q[i].Status = "Pending"
            /\ \A k \in 1..(i - 1) : q[k].Status /= "Pending"
    ELSE 0

QueueRemoveAt(q, i) == SubSeq(q, 1, i - 1) \o SubSeq(q, i + 1, Len(q))

\* ---------------------------------------------------------------- Init
\* No refused call yet; no round trip under way.
NoCall == [op |-> "none", id |-> -1]
NoRecord == [Status |-> "none"]
NoTrip == [pc |-> "idle", id |-> -1, first |-> NoRecord, got |-> NoRecord, again |-> NoRecord]
\* updateStats between two ticks: the read lock is free.
StatsIdle == [pc |-> "idle", rlock |-> FALSE, todo |-> {}, j |-> 0, rec |-> NoRecord]
\* newRateLimitedReader not called yet.
NoLimiter == [pc |-> "idle", MaxSpeed |-> 0, chunks |-> 0, limit |-> 0,
              period |-> 0, permits |-> 0]
\* downloadWithChunks not called yet.
NoLayout == [size |-> 0, nchunks |-> 0, chunks |-> <<>>]

\* InitDB and NewDownloadManager on an empty table.  The database numbers
\* the rows; the model numbers them from 0, the registry key that
\* supportsRangeRequests reads (with every id above 0 each runner panics
\* in the probe as long as no job is registered under key 0).  The table is
\* the one createTables makes, whose error column has no default and is
\* NULL in every inserted row, or one that idm.db already held (CREATE
\* TABLE IF NOT EXISTS keeps it) and whose error column defaults to ''.
Init ==
    /\ store = <<>>
    /\ nextId = 0
    /\ queue = <<>>
    /\ jobs = <<>>
    /\ downloads = <<>>
    /\ activeDownloads = 0
    /\ files = <<>>
    /\ crashed = FALSE
    /\ lastOp = <<>>
    /\ errorDefault \in {Null, ""}
    /\ callbacks = 0
    /\ events = {}
    /\ ret = NoCall
    /\ trip = NoTrip
    /\ stats = StatsIdle
    /\ layout = NoLayout
    /\ limiter = NoLimiter

\* ------------------------------------------------------ maps and jobs
Put(f, k, v) == [x \in DOMAIN f \cup {k} |-> IF x = k THEN v ELSE f[x]]
Drop(f, k) == [x \in DOMAIN f \ {k} |-> f[x]]

JobIds == 1..Len(jobs)

\* The DownloadJob that StartDownload builds around the loaded record: a
\* fresh context, no chunks; the runner has been launched and has not run.
\* (signal and midTransfer are history: which operation cancelled the context
\* last, and whether a pause found the runner inside its transfer with
\* bytes already counted.)
NewJob(id, download, size, nchunks) ==
    [id |-> id, size |-> size, nchunks |-> nchunks, d |-> download,
     cancelled |-> FALSE, signal |-> "none", midTransfer |-> FALSE,
     pc |-> "launched",
     err |-> "none", body |-> 0, chunks |-> <<>>, errChan |-> <<>>]

\* downloadWithChunks: the range of chunk i (from 0) of nchunks over size.
ChunkStart(i, size, nchunks) == i * (size \div nchunks)

\* The end of chunk i with the last chunk cut like the others.
ChunkEndNoRemainder(i, size, nchunks) ==
    ChunkStart(i, size, nchunks) + (size \div nchunks) - 1

ChunkEnd(i, size, nchunks) ==
    IF i = nchunks - 1 THEN size - 1
    ELSE ChunkStart(i, size, nchunks) + (size \div nchunks) - 1

NewChunk(i, size, nchunks) ==
    [start |-> ChunkStart(i, size, nchunks), end |-> ChunkEnd(i, size, nchunks),
     downloaded |-> 0, pc |-> "request", body |-> 0, n |-> 0, res |-> "none"]

\* The sizes downloadWithChunks is given: just above the smallest threshold
\* the settings accept, and just above the threshold of DefaultConfig.
LayoutSizes ==
    {MinChunkSize + k : k \in 1..LayoutSpan} \cup {ChunkSize + k : k \in 1..LayoutSpan}

\* downloadWithChunks, lines 201 and 220-233, on a record of the given size
\* and chunk count: the ranges, in index order.
BuildLayout ==
    /\ layout = NoLayout
    /\ \E size \in LayoutSizes, nchunks \in 1..MaxChunks :
          layout' = [size |-> size, nchunks |-> nchunks,
                     chunks |-> [i \in 1..nchunks |-> NewChunk(i - 1, size, nchunks)]]
    /\ UNCHANGED <<store, nextId, queue, jobs, downloads, activeDownloads, files,
                   crashed, lastOp, errorDefault, callbacks, events, ret, trip,
                   stats, limiter>>

\* ------------------------------------------------------- subscribers
\* AddCallback: one more subscriber.
AddCallbackUpTo(limit) ==
    /\ ~crashed
    /\ callbacks < limit
    /\ callbacks' = callbacks + 1
    /\ UNCHANGED <<store, nextId, queue, jobs, downloads, activeDownloads, files,
                   crashed, lastOp, errorDefault, events, ret, trip>>
    /\ UNCHANGED <<stats, layout, limiter>>

\* notifyCallbacks: one callback invocation is launched per subscriber, with
\* the record (events keeps the status and error the record had then).
notifyCallbacks(evs, id, d) ==
    evs \cup {[cb |-> cb, id |-> id, Status |-> d.Status, Error |-> d.Error] :
                 cb \in 1..callbacks}

\* -------------------------------------------------- manager operations
\* AddDownload: HEAD for the size, INSERT a Pending row, enqueue the record,
\* notify.
AddDownloadUpTo(limit, sizes, chunks) ==
    /\ ~crashed
    /\ nextId < limit
    /\ \E size \in sizes :
        LET download == NewDownload(size, "Pending", chunks)
        IN /\ store' = SaveDownload(store, nextId, download)
           /\ queue' = QueueAdd(queue, [ID |-> nextId, Status |-> download.Status])
           /\ events' = notifyCallbacks(events, nextId, download)
    /\ files' = Put(files, nextId, FALSE)
    /\ lastOp' = Put(lastOp, nextId, "none")
    /\ nextId' = nextId + 1
    /\ UNCHANGED <<jobs, downloads, activeDownloads, crashed>>
    /\ UNCHANGED <<errorDefault, callbacks, ret, trip>>
    /\ UNCHANGED <<stats, layout, limiter>>

\* AddDownload when the HEAD fails or the INSERT fails: the error is
\* returned.
AddDownloadRefused ==
    /\ ~crashed
    /\ ret' = [op |-> "AddDownload", id |-> -1]
    /\ UNCHANGED <<store, nextId, queue, jobs, downloads, activeDownloads, files,
                   crashed, lastOp, errorDefault, callbacks, events, trip>>
    /\ UNCHANGED <<stats, layout, limiter>>

\* The body of StartDownload once the row is loaded and is not Downloading:
\* build the job, register it under the id (dm.mutex.Lock waits for the
\* statistics loop to release its read lock), launch the runner.
Register(id) ==
    /\ ~stats.rlock
    /\ jobs' = Append(jobs, NewJob(id, GetDownload(store, id),
                                   store[id].Size, store[id].Chunks))
    /\ downloads' = Put(downloads, id, Len(jobs) + 1)

\* StartDownload without its check of the status.
StartDownloadOkAnyStatus(id) == GetDownloadOk(store, id)

\* StartDownload, lines 101-108: the row must load and must not be
\* Downloading.
StartDownloadOk(id) ==
    /\ GetDownloadOk(store, id)
    /\ store[id].Status /= "Downloading"

\* StartDownload called by the user.
StartDownloadUpTo(id, limit) ==
    /\ ~crashed
    /\ Len(jobs) < limit
    /\ StartDownloadOk(id)
    /\ Register(id)
    /\ lastOp' = Put(lastOp, id, "none")
    /\ UNCHANGED <<store, nextId, queue, activeDownloads, files, crashed>>
    /\ UNCHANGED <<errorDefault, callbacks, events, ret, trip>>
    /\ UNCHANGED <<stats, layout, limiter>>

\* StartDownload when GetDownload fails or the row is Downloading: the error
\* is returned.
StartDownloadRefused(id) ==
    /\ ~crashed
    /\ ~StartDownloadOk(id)
    /\ ret' = [op |-> "StartDownload", id |-> id]
    /\ UNCHANGED <<store, nextId, queue, jobs, downloads, activeDownloads, files,
                   crashed, lastOp, errorDefault, callbacks, events, trip>>
    /\ UNCHANGED <<stats, layout, limiter>>

\* PauseDownload with no job registered under the id: "download not found".
PauseDownloadRefused(id) ==
    /\ ~crashed
    /\ id \notin DOMAIN downloads
    /\ ret' = [op |-> "PauseDownload", id |-> id]
    /\ UNCHANGED <<store, nextId, queue, jobs, downloads, activeDownloads, files,
                   crashed, lastOp, errorDefault, callbacks, events, trip>>
    /\ UNCHANGED <<stats, layout, limiter>>

\* PauseDownload: cancel the registered job's context, set its record to
\* Paused, persist it, notify.
PauseDownload(id) ==
    /\ ~crashed
    /\ id \in DOMAIN downloads
    /\ LET j == downloads[id]
           d == [jobs[j].d EXCEPT !.Status = "Paused"]
       IN /\ jobs' = [jobs EXCEPT ![j].cancelled = TRUE, ![j].signal = "pause",
                                  ![j].midTransfer = /\ jobs[j].pc \in {"stream", "wait"}
                                                      /\ jobs[j].d.Downloaded > 0,
                                  ![j].d = d]
          /\ store' = UpdateDownload(store, id, d)
          /\ events' = notifyCallbacks(events, id, d)
    /\ lastOp' = Put(lastOp, id, "pause")
    /\ UNCHANGED <<nextId, queue, downloads, activeDownloads, files, crashed>>
    /\ UNCHANGED <<errorDefault, callbacks, ret, trip>>
    /\ UNCHANGED <<stats, layout, limiter>>

\* CancelDownload: cancel the registered job's context if there is one, load
\* the row, persist it as Cancelled, notify, remove the file.  (A row that
\* does not load returns the error after the context is cancelled; a
\* registered job's row always loads.)
CancelDownload(id) ==
    /\ ~crashed
    /\ GetDownloadOk(store, id)
    /\ jobs' = IF id \in DOMAIN downloads
               THEN [jobs EXCEPT ![downloads[id]].cancelled = TRUE,
                                 ![downloads[id]].signal = "cancel"]
               ELSE jobs
    /\ LET download == [GetDownload(store, id) EXCEPT !.Status = "Cancelled"]
       IN /\ store' = UpdateDownload(store, id, download)
          /\ events' = notifyCallbacks(events, id, download)
    /\ files' = Put(files, id, FALSE)
    /\ lastOp' = Put(lastOp, id, "cancel")
    /\ UNCHANGED <<nextId, queue, downloads, activeDownloads, crashed>>
    /\ UNCHANGED <<errorDefault, callbacks, ret, trip>>
    /\ UNCHANGED <<stats, layout, limiter>>

\* One tick of processQueue that finds a slot and a Pending item: the item
\* leaves the queue and StartDownload is called on its id, its error dropped.
ProcessQueueUpTo(limit) ==
    /\ ~crashed
    /\ Len(jobs) < limit
    /\ activeDownloads < MaxConcurrentDownloads
    /\ QueueNextIndex(queue) /= 0
    /\ LET i == QueueNextIndex(queue)
           id == queue[i].ID
       IN /\ queue' = QueueRemoveAt(queue, i)
          /\ IF StartDownloadOk(id)
             THEN Register(id) /\ lastOp' = Put(lastOp, id, "none")
             ELSE UNCHANGED <<jobs, downloads, lastOp>>
    /\ UNCHANGED <<store, nextId, activeDownloads, files, crashed>>
    /\ UNCHANGED <<errorDefault, callbacks, events, ret, trip>>
    /\ UNCHANGED <<stats, layout, limiter>>

\* One tick of updateStats taken as a whole: under the read lock, every
\* registered job whose record is Downloading gets its progress recomputed,
\* is persisted and notified.
StatsRecord(job) ==
    IF job.d.Status = "Downloading" /\ job.size > 0
    THEN [job.d EXCEPT !.Progress = Ratio(job.d.Downloaded, job.size)]
    ELSE job.d

UpdateStats ==
    /\ ~crashed
    /\ \E id \in DOMAIN downloads : jobs[downloads[id]].d.Status = "Downloading"
    /\ jobs' = [j \in JobIds |->
                  IF \E id \in DOMAIN downloads : downloads[id] = j
                  THEN [jobs[j] EXCEPT !.d = StatsRecord(jobs[j])]
                  ELSE jobs[j]]
    /\ store' = [id \in DOMAIN store |->
                  IF id \in DOMAIN downloads
                     /\ jobs[downloads[id]].d.Status = "Downloading"
                  THEN UpdateDownload(store, id, StatsRecord(jobs[downloads[id]]))[id]
                  ELSE store[id]]
    /\ events' = events \cup UNION
                    {notifyCallbacks({}, id, StatsRecord(jobs[downloads[id]])) :
                        id \in {i \in DOMAIN downloads :
                                  jobs[downloads[i]].d.Status = "Downloading"}}
    /\ UNCHANGED <<nextId, queue, downloads, activeDownloads, files, crashed, lastOp>>
    /\ UNCHANGED <<errorDefault, callbacks, ret, trip>>
    /\ UNCHANGED <<stats, layout, limiter>>

\* updateStats step by step.  Line 439: the read lock is taken and the range
\* over dm.downloads begins; no entry comes or goes while the lock is held.
StatsLock ==
    /\ ~crashed
    /\ stats.pc = "idle"
    /\ downloads /= <<>>
    /\ stats' = [stats EXCEPT !.pc = "scan", !.rlock = TRUE,
                              !.todo = {downloads[id] : id \in DOMAIN downloads}]
    /\ UNCHANGED <<store, nextId, queue, jobs, downloads, activeDownloads, files,
                   crashed, lastOp, errorDefault, callbacks, events, ret, trip,
                   layout, limiter>>

\* Lines 441-459 and UpdateDownload's lines 460-468, for the next job of the
\* range: a record that is not Downloading is skipped; otherwise its
\* progress is recomputed and the arguments of the UPDATE are read from it.
StatsCompute(j) ==
    /\ ~crashed
    /\ stats.pc = "scan"
    /\ j \in stats.todo
    /\ IF jobs[j].d.Status = "Downloading"
       THEN /\ jobs' = [jobs EXCEPT ![j].d = StatsRecord(jobs[j])]
            /\ stats' = [stats EXCEPT !.pc = "write", !.j = j,
                                      !.rec = StatsRecord(jobs[j])]
       ELSE /\ stats' = [stats EXCEPT !.todo = stats.todo \ {j}]
            /\ UNCHANGED jobs
    /\ UNCHANGED <<store, nextId, queue, downloads, activeDownloads, files,
                   crashed, lastOp, errorDefault, callbacks, events, ret, trip,
                   layout, limiter>>

\* UpdateDownload's db.Exec with the arguments read before, then notifyCallbacks:
\* the subscribers are notified with the record as it is now.
StatsWrite ==
    /\ ~crashed
    /\ stats.pc = "write"
    /\ store' = UpdateDownload(store, jobs[stats.j].id, stats.rec)
    /\ events' = notifyCallbacks(events, jobs[stats.j].id, jobs[stats.j].d)
    /\ stats' = [stats EXCEPT !.pc = "scan", !.todo = stats.todo \ {stats.j},
                              !.j = 0, !.rec = NoRecord]
    /\ UNCHANGED <<nextId, queue, jobs, downloads, activeDownloads, files,
                   crashed, lastOp, errorDefault, callbacks, ret, trip,
                   layout, limiter>>

\* Line 463: the range is over, the read lock is released.
StatsUnlock ==
    /\ ~crashed
    /\ stats.pc = "scan"
    /\ stats.todo = {}
    /\ stats' = StatsIdle
    /\ UNCHANGED <<store, nextId, queue, jobs, downloads, activeDownloads, files,
                   crashed, lastOp, errorDefault, callbacks, events, ret, trip,
                   layout, limiter>>

\* The statistics loop, one statement at a time.
StatsLoop ==
    \/ StatsLock
    \/ \E j \in JobIds : StatsCompute(j)
    \/ StatsWrite
    \/ StatsUnlock

\* ---------------------------------------------------- the rate limiter
\* The limits a configured speed can be: whole KiB, one byte more, one byte
\* less.
SpeedValues ==
    {LimiterUnit * k + r : k \in 0..MaxKiB, r \in {0, 1, LimiterUnit - 1}} \ {0}

\* downloadSingleFile, lines 338-340, and downloadChunk, lines 274-276, with
\* MaxSpeed above 0: the limit handed to newRateLimitedReader is MaxSpeed
\* (chunks 0 stands for single-stream mode) or MaxSpeed / Chunks.
NewLimiter ==
    /\ ~crashed
    /\ limiter.pc = "idle"
    /\ \E speed \in SpeedValues, chunks \in 0..MaxChunks :
          limiter' = [limiter EXCEPT !.pc = "made", !.MaxSpeed = speed,
                                    !.chunks = chunks,
                                    !.limit = IF chunks = 0 THEN speed
                                              ELSE speed \div chunks]
    /\ UNCHANGED <<store, nextId, queue, jobs, downloads, activeDownloads, files,
                   crashed, lastOp, errorDefault, callbacks, events, ret, trip,
                   stats, layout>>

\* newRateLimitedReader, line 488: time.Second / Duration(limit/1024), both
\* integer divisions.  A zero divisor panics in the limiter's goroutine, and
\* so does time.NewTicker on an interval that is not positive; the process
\* ends.
TickerPeriod(limit) == Second \div (limit \div LimiterUnit)

LimiterStart ==
    /\ ~crashed
    /\ limiter.pc = "made"
    /\ IF limiter.limit \div LimiterUnit = 0 \/ TickerPeriod(limiter.limit) <= 0
       THEN /\ limiter' = [limiter EXCEPT !.pc = "panic"]
            /\ crashed' = TRUE
       ELSE /\ limiter' = [limiter EXCEPT !.pc = "ticking",
                                          !.period = TickerPeriod(limiter.limit)]
            /\ UNCHANGED crashed
    /\ UNCHANGED <<store, nextId, queue, jobs, downloads, activeDownloads, files,
                   lastOp, errorDefault, callbacks, events, ret, trip,
                   stats, layout>>

\* Lines 491-496 over the ticker's first second: each tick releases one
\* permit (permits counts the ticks so far).
LimiterTick ==
    /\ ~crashed
    /\ limiter.pc = "ticking"
    /\ (limiter.permits + 1) * limiter.period <= Second
    /\ limiter' = [limiter EXCEPT !.permits = limiter.permits + 1]
    /\ UNCHANGED <<store, nextId, queue, jobs, downloads, activeDownloads, files,
                   crashed, lastOp, errorDefault, callbacks, events, ret, trip,
                   stats, layout>>

\* ------------------------------------------------------ the job runner
\* executeDownload, lines 150-158: count the runner in, mark the record
\* Downloading, stamp started_at, persist.
ExecBegin(j) ==
    /\ ~crashed
    /\ jobs[j].pc = "launched"
    /\ activeDownloads' = activeDownloads + 1
    /\ LET d == [jobs[j].d EXCEPT !.Status = "Downloading", !.StartedAt = TRUE]
       IN /\ jobs' = [jobs EXCEPT ![j].d = d, ![j].pc = "probe"]
          /\ store' = UpdateDownload(store, jobs[j].id, d)
    /\ UNCHANGED <<nextId, queue, downloads, files, crashed, lastOp>>
    /\ UNCHANGED <<errorDefault, callbacks, events, ret, trip>>
    /\ UNCHANGED <<stats, layout, limiter>>

\* supportsRangeRequests and the choice of mode.  The HEAD goes through
\* dm.downloads[0].client: with no job registered under key 0 the nil
\* dereference panics and the process ends.  Otherwise the origin answers
\* with or without Accept-Ranges: bytes (a failed HEAD counts as without).
ExecProbe(j) ==
    /\ ~crashed
    /\ jobs[j].pc = "probe"
    /\ IF 0 \notin DOMAIN downloads
       THEN crashed' = TRUE /\ UNCHANGED jobs
       ELSE /\ \E supportsRange \in BOOLEAN :
                 jobs' = [jobs EXCEPT ![j].pc =
                            IF supportsRange /\ jobs[j].size > ChunkSize
                            THEN "open_chunks" ELSE "open_single"]
            /\ UNCHANGED crashed
    /\ UNCHANGED <<store, nextId, queue, downloads, activeDownloads, files, lastOp>>
    /\ UNCHANGED <<errorDefault, callbacks, events, ret, trip>>
    /\ UNCHANGED <<stats, layout, limiter>>

\* downloadWithChunks, lines 199-242: create and truncate the file, build the
\* chunks, launch one task per chunk.
OpenChunks(j) ==
    /\ ~crashed
    /\ jobs[j].pc = "open_chunks"
    /\ files' = Put(files, jobs[j].id, TRUE)
    /\ jobs' = [jobs EXCEPT
                  ![j].chunks = jobs[j].chunks \o
                      [i \in 1..jobs[j].nchunks |->
                          NewChunk(i - 1, jobs[j].size, jobs[j].nchunks)],
                  ![j].pc = "wait"]
    /\ UNCHANGED <<store, nextId, queue, downloads, activeDownloads, crashed, lastOp>>
    /\ UNCHANGED <<errorDefault, callbacks, events, ret, trip>>
    /\ UNCHANGED <<stats, layout, limiter>>

\* errChan made without a buffer.
ErrChanUnbuffered(job) == 0

\* downloadWithChunks, line 217: the capacity of errChan.
ErrChanCap(job) == job.nchunks

\* A chunk task returns: a non-nil error goes to errChan, then wg.Done.
\* Nothing receives from errChan before wg.Wait has returned, so a send
\* that finds the channel full blocks the task for good.
ChunkReturn(job, c, res) ==
    IF res /= "ok" /\ Len(job.errChan) >= ErrChanCap(job)
    THEN [job EXCEPT !.chunks[c].pc = "blocked"]
    ELSE [job EXCEPT !.chunks[c].pc = "done", !.chunks[c].res = res,
                     !.errChan = IF res = "ok" THEN job.errChan
                                 ELSE Append(job.errChan, res)]

\* downloadChunk, lines 258-270: the ranged GET.  With the context already
\* cancelled client.Do fails; otherwise the origin fails the request or
\* answers with a body whose length is the range's, give or take.
ChunkRequest(j, c) ==
    /\ ~crashed
    /\ jobs[j].pc = "wait"
    /\ jobs[j].chunks[c].pc = "request"
    /\ LET ch == jobs[j].chunks[c]
           len == ch.end - ch.start + 1
       IN IF jobs[j].cancelled
          THEN jobs' = [jobs EXCEPT ![j] = ChunkReturn(jobs[j], c, "canceled")]
          ELSE \E r \in OriginAnswers :
                 jobs' = [jobs EXCEPT ![j] =
                            IF r.fail
                            THEN ChunkReturn(jobs[j], c, "network")
                            ELSE [jobs[j] EXCEPT !.chunks[c].pc = "loop",
                                                 !.chunks[c].body = len + r.delta]]
    /\ UNCHANGED <<store, nextId, queue, downloads, activeDownloads, files, crashed, lastOp>>
    /\ UNCHANGED <<errorDefault, callbacks, events, ret, trip>>
    /\ UNCHANGED <<stats, layout, limiter>>

\* The loop of downloadChunk without the poll of the context.
ChunkLoopNoPoll(j, c) ==
    /\ ~crashed
    /\ jobs[j].pc = "wait"
    /\ jobs[j].chunks[c].pc = "loop"
    /\ LET ch == jobs[j].chunks[c]
       IN jobs' = [jobs EXCEPT ![j] =
                     IF ch.body > 0
                     THEN [jobs[j] EXCEPT !.chunks[c].pc = "add",
                                          !.chunks[c].n = ch.body,
                                          !.chunks[c].body = 0,
                                          !.chunks[c].downloaded = ch.downloaded + ch.body]
                     ELSE ChunkReturn(jobs[j], c, "ok")]
    /\ UNCHANGED <<store, nextId, queue, downloads, activeDownloads, files, crashed, lastOp>>
    /\ UNCHANGED <<errorDefault, callbacks, events, ret, trip>>
    /\ UNCHANGED <<stats, layout, limiter>>

\* downloadChunk, lines 280-293 and 303-311: poll the context; read; a
\* non-empty read is written at start+downloaded and counted in the chunk;
\* end of stream returns nil.
ChunkLoop(j, c) ==
    /\ ~crashed
    /\ jobs[j].pc = "wait"
    /\ jobs[j].chunks[c].pc = "loop"
    /\ LET ch == jobs[j].chunks[c]
       IN jobs' = [jobs EXCEPT ![j] =
                     IF jobs[j].cancelled
                     THEN ChunkReturn(jobs[j], c, "canceled")
                     ELSE IF ch.body > 0
                     THEN [jobs[j] EXCEPT !.chunks[c].pc = "add",
                                          !.chunks[c].n = ch.body,
                                          !.chunks[c].body = 0,
                                          !.chunks[c].downloaded = ch.downloaded + ch.body]
                     ELSE ChunkReturn(jobs[j], c, "ok")]
    /\ UNCHANGED <<store, nextId, queue, downloads, activeDownloads, files, crashed, lastOp>>
    /\ UNCHANGED <<errorDefault, callbacks, events, ret, trip>>
    /\ UNCHANGED <<stats, layout, limiter>>

\* downloadChunk, lines 300-308: the read is added to the job's counter;
\* then the task is back at the top of the loop, or, when the reader
\* reported the end of the stream together with its last bytes, it returns
\* nil without polling the context.
ChunkAdd(j, c) ==
    /\ ~crashed
    /\ jobs[j].pc = "wait"
    /\ jobs[j].chunks[c].pc = "add"
    /\ \E eof \in BOOLEAN :
          LET added == [jobs[j] EXCEPT !.d.Downloaded = jobs[j].d.Downloaded + jobs[j].chunks[c].n,
                                      !.chunks[c].n = 0,
                                      !.chunks[c].pc = "loop"]
          IN jobs' = [jobs EXCEPT ![j] = IF eof THEN ChunkReturn(added, c, "ok")
                                         ELSE added]
    /\ UNCHANGED <<store, nextId, queue, downloads, activeDownloads, files, crashed, lastOp>>
    /\ UNCHANGED <<errorDefault, callbacks, events, ret, trip>>
    /\ UNCHANGED <<stats, layout, limiter>>

\* The join of downloadWithChunks taken as soon as one task is back.
JoinChunksFirstBack(j) ==
    /\ ~crashed
    /\ jobs[j].pc = "wait"
    /\ \E c \in 1..Len(jobs[j].chunks) : jobs[j].chunks[c].pc = "done"
    /\ jobs' = [jobs EXCEPT ![j].err = IF jobs[j].errChan = <<>> THEN "none"
                                       ELSE Head(jobs[j].errChan),
                            ![j].pc = "finish"]
    /\ UNCHANGED <<store, nextId, queue, downloads, activeDownloads, files, crashed, lastOp>>
    /\ UNCHANGED <<errorDefault, callbacks, events, ret, trip>>
    /\ UNCHANGED <<stats, layout, limiter>>

\* downloadWithChunks, lines 244-254: all tasks are back; the first error in
\* errChan, if any, is the result.
JoinChunks(j) ==
    /\ ~crashed
    /\ jobs[j].pc = "wait"
    /\ \A c \in 1..Len(jobs[j].chunks) : jobs[j].chunks[c].pc = "done"
    /\ jobs' = [jobs EXCEPT ![j].err = IF jobs[j].errChan = <<>> THEN "none"
                                       ELSE Head(jobs[j].errChan),
                            ![j].pc = "finish"]
    /\ UNCHANGED <<store, nextId, queue, downloads, activeDownloads, files, crashed, lastOp>>
    /\ UNCHANGED <<errorDefault, callbacks, events, ret, trip>>
    /\ UNCHANGED <<stats, layout, limiter>>

\* downloadSingleFile, lines 317-335: the GET, answered by the origin with
\* one of answers, then os.Create.
OpenSingle(j, answers) ==
    /\ ~crashed
    /\ jobs[j].pc = "open_single"
    /\ IF jobs[j].cancelled
       THEN /\ jobs' = [jobs EXCEPT ![j].err = "canceled", ![j].pc = "finish"]
            /\ UNCHANGED files
       ELSE \E r \in answers :
              IF r.fail
              THEN /\ jobs' = [jobs EXCEPT ![j].err = "network", ![j].pc = "finish"]
                   /\ UNCHANGED files
              ELSE /\ jobs' = [jobs EXCEPT ![j].body = jobs[j].size + r.delta,
                                           ![j].pc = "stream"]
                   /\ files' = Put(files, jobs[j].id, TRUE)
    /\ UNCHANGED <<store, nextId, queue, downloads, activeDownloads, crashed, lastOp>>
    /\ UNCHANGED <<errorDefault, callbacks, events, ret, trip>>
    /\ UNCHANGED <<stats, layout, limiter>>

\* downloadSingleFile, lines 344-367: poll the context; read; a non-empty
\* read is appended to the file and added to the job's counter; end of
\* stream returns nil, whether the reader reports it with its last bytes or
\* in a read of its own.
StreamLoop(j) ==
    /\ ~crashed
    /\ jobs[j].pc = "stream"
    /\ \E eof \in BOOLEAN :
          jobs' = [jobs EXCEPT ![j] =
                     IF jobs[j].cancelled
                     THEN [jobs[j] EXCEPT !.err = "canceled", !.pc = "finish"]
                     ELSE IF jobs[j].body > 0
                     THEN [jobs[j] EXCEPT !.d.Downloaded = jobs[j].d.Downloaded + jobs[j].body,
                                          !.body = 0,
                                          !.pc = IF eof THEN "finish" ELSE "stream"]
                     ELSE [jobs[j] EXCEPT !.err = "none", !.pc = "finish"]]
    /\ UNCHANGED <<store, nextId, queue, downloads, activeDownloads, files, crashed, lastOp>>
    /\ UNCHANGED <<errorDefault, callbacks, events, ret, trip>>
    /\ UNCHANGED <<stats, layout, limiter>>

\* executeDownload, lines 170-181: the terminal status from the transfer's
\* error, persisted and notified.
FinishRecord(job) ==
    IF job.err /= "none"
    THEN [job.d EXCEPT !.Status = "Failed", !.Error = job.err]
    ELSE [job.d EXCEPT !.Status = "Completed", !.CompletedAt = TRUE,
                       !.Progress = ProgressFull]

ExecFinish(j) ==
    /\ ~crashed
    /\ jobs[j].pc = "finish"
    /\ jobs' = [jobs EXCEPT ![j].d = FinishRecord(jobs[j]), ![j].pc = "unregister"]
    /\ store' = UpdateDownload(store, jobs[j].id, FinishRecord(jobs[j]))
    /\ events' = notifyCallbacks(events, jobs[j].id, FinishRecord(jobs[j]))
    /\ UNCHANGED <<nextId, queue, downloads, activeDownloads, files, crashed, lastOp>>
    /\ UNCHANGED <<errorDefault, callbacks, ret, trip>>
    /\ UNCHANGED <<stats, layout, limiter>>

\* executeDownload, lines 183-186 and the deferred decrement: the entry under
\* the record's id leaves the registry (dm.mutex.Lock waits for the
\* statistics loop to release its read lock), the runner is counted out.
ExecUnregister(j) ==
    /\ ~crashed
    /\ jobs[j].pc = "unregister"
    /\ ~stats.rlock
    /\ downloads' = Drop(downloads, jobs[j].id)
    /\ activeDownloads' = activeDownloads - 1
    /\ jobs' = [jobs EXCEPT ![j].pc = "done"]
    /\ UNCHANGED <<store, nextId, queue, files, crashed, lastOp>>
    /\ UNCHANGED <<errorDefault, callbacks, events, ret, trip>>
    /\ UNCHANGED <<stats, layout, limiter>>

\* The steps of a runner in either mode.
RunnerCommon ==
    \E j \in JobIds :
        \/ ExecBegin(j)
        \/ ExecProbe(j)
        \/ ExecFinish(j)
        \/ ExecUnregister(j)

\* The steps of a single-stream transfer.
RunnerSingle ==
    \E j \in JobIds :
        \/ OpenSingle(j, OriginAnswers)
        \/ StreamLoop(j)

\* The steps of a single-stream transfer whose bodies have the length asked
\* for.
RunnerSingleExact ==
    \E j \in JobIds :
        \/ OpenSingle(j, ExactAnswers)
        \/ StreamLoop(j)

\* The steps of one runner in single-stream mode with an origin that never
\* fails.
HonestRunner(j) ==
    \/ ExecBegin(j)
    \/ ExecProbe(j)
    \/ OpenSingle(j, HonestAnswers)
    \/ StreamLoop(j)
    \/ ExecFinish(j)
    \/ ExecUnregister(j)

\* ------------------------------------------- a caller of the store alone
\* The records a caller may hand to SaveDownload.
TripRecords ==
    [Size : {0, SmallSize}, Downloaded : {0, 1},
     Status : {"Pending", "Downloading", "Paused", "Completed", "Failed", "Cancelled"},
     Speed : {0, 1}, Progress : {ProgressZero, ProgressFull},
     StartedAt : BOOLEAN, CompletedAt : BOOLEAN,
     Error : {"", "network"}, Chunks : {AddedChunks}]

\* SaveDownload of a record.
TripSave(limit) ==
    /\ trip.pc = "idle"
    /\ nextId < limit
    /\ \E d \in TripRecords :
        /\ store' = SaveDownload(store, nextId, d)
        /\ trip' = [trip EXCEPT !.pc = "saved", !.id = nextId, !.first = d]
    /\ nextId' = nextId + 1
    /\ UNCHANGED <<queue, jobs, downloads, activeDownloads, files, crashed, lastOp,
                   errorDefault, callbacks, events, ret>>
    /\ UNCHANGED <<stats, layout, limiter>>

\* GetDownload by the returned id: the record, or the error.
TripLoad ==
    /\ trip.pc = "saved"
    /\ trip' = IF GetDownloadOk(store, trip.id)
               THEN [trip EXCEPT !.pc = "loaded", !.got = GetDownload(store, trip.id)]
               ELSE [trip EXCEPT !.pc = "error"]
    /\ UNCHANGED <<store, nextId, queue, jobs, downloads, activeDownloads, files,
                   crashed, lastOp, errorDefault, callbacks, events, ret>>
    /\ UNCHANGED <<stats, layout, limiter>>

\* UpdateDownload of the loaded record.
TripUpdate ==
    /\ trip.pc = "loaded"
    /\ store' = UpdateDownload(store, trip.id, trip.got)
    /\ trip' = [trip EXCEPT !.pc = "updated"]
    /\ UNCHANGED <<nextId, queue, jobs, downloads, activeDownloads, files,
                   crashed, lastOp, errorDefault, callbacks, events, ret>>
    /\ UNCHANGED <<stats, layout, limiter>>

\* GetDownload again.
TripReload ==
    /\ trip.pc = "updated"
    /\ trip' = IF GetDownloadOk(store, trip.id)
               THEN [trip EXCEPT !.pc = "reloaded", !.again = GetDownload(store, trip.id)]
               ELSE [trip EXCEPT !.pc = "error"]
    /\ UNCHANGED <<store, nextId, queue, jobs, downloads, activeDownloads, files,
                   crashed, lastOp, errorDefault, callbacks, events, ret>>
    /\ UNCHANGED <<stats, layout, limiter>>

\* The steps of a ranged transfer and of its chunk tasks.
RunnerRanged ==
    \E j \in JobIds :
        \/ OpenChunks(j)
        \/ \E c \in 1..Len(jobs[j].chunks) :
              ChunkRequest(j, c) \/ ChunkLoop(j, c) \/ ChunkAdd(j, c)
        \/ JoinChunks(j)

\* The steps of the ranged transfer of one job and of its chunk tasks.
RangedTask(j) ==
    \/ OpenChunks(j)
    \/ \E c \in 1..Len(jobs[j].chunks) :
          ChunkRequest(j, c) \/ ChunkLoop(j, c) \/ ChunkAdd(j, c)
    \/ JoinChunks(j)

\* ------------------------------------------------------ specifications
Pause == \E id \in DOMAIN store : PauseDownload(id)
Cancel == \E id \in DOMAIN store : CancelDownload(id)

\* The lifecycle of records below the chunk-size threshold: the user's
\* operations, both background loops, the runners.
Next ==
    \/ AddDownloadUpTo(MaxRecords, {SmallSize}, AddedChunks)
    \/ \E id \in DOMAIN store : StartDownloadUpTo(id, MaxJobs)
    \/ Pause
    \/ Cancel
    \/ ProcessQueueUpTo(MaxJobs)
    \/ UpdateStats
    \/ RunnerCommon
    \/ RunnerSingle

Spec == Init /\ [][Next]_vars

\* The lifecycle of one record above the threshold, started once.
NextRanged ==
    \/ AddDownloadUpTo(RangedRecords, {BigSize}, DefaultChunks)
    \/ \E id \in DOMAIN store : StartDownloadUpTo(id, RangedJobs)
    \/ Pause
    \/ Cancel
    \/ ProcessQueueUpTo(RangedJobs)
    \/ UpdateStats
    \/ RunnerCommon
    \/ RunnerSingle
    \/ RunnerRanged

SpecRanged == Init /\ [][NextRanged]_vars

\* The same lifecycle with every goroutine of a ranged transfer scheduled:
\* the runner inside downloadWithChunks and its chunk tasks keep taking
\* steps as long as one of them can.
SpecRangedFair ==
    /\ Init
    /\ [][NextRanged]_vars
    /\ \A j \in 1..RangedJobs : WF_vars(j \in JobIds /\ RangedTask(j))

\* Admission alone: records are added and only processQueue starts them.
NextAdmission ==
    \/ AddDownloadUpTo(AdmRecords, {SmallSize}, AddedChunks)
    \/ ProcessQueueUpTo(AdmRecords)
    \/ RunnerCommon
    \/ RunnerSingle

SpecAdmission == Init /\ [][NextAdmission]_vars

\* Admission and runners with an origin that never fails and no pause or
\* cancel; the admission loop ticks for ever and every launched goroutine
\* is scheduled.
NextLive ==
    \/ AddDownloadUpTo(LiveRecords, {SmallSize}, AddedChunks)
    \/ ProcessQueueUpTo(LiveRecords)
    \/ UpdateStats
    \/ \E j \in JobIds : HonestRunner(j)

SpecLive ==
    /\ Init
    /\ [][NextLive]_vars
    /\ WF_vars(ProcessQueueUpTo(LiveRecords))
    /\ \A j \in 1..LiveRecords : WF_vars(j \in JobIds /\ HonestRunner(j))

\* The lifecycle with the calls that return an error.
CallIds == 0..CallRecords

NextCalls ==
    \/ AddDownloadUpTo(CallRecords, {SmallSize}, AddedChunks)
    \/ AddDownloadRefused
    \/ \E id \in DOMAIN store : StartDownloadUpTo(id, CallJobs)
    \/ \E id \in CallIds : StartDownloadRefused(id)
    \/ Pause
    \/ \E id \in CallIds : PauseDownloadRefused(id)
    \/ Cancel
    \/ ProcessQueueUpTo(CallJobs)
    \/ RunnerCommon
    \/ RunnerSingleExact

SpecCalls == Init /\ [][NextCalls]_vars

\* The lifecycle with subscribers.
NextEvents ==
    \/ AddCallbackUpTo(MaxCallbacks)
    \/ AddDownloadUpTo(EventRecords, {SmallSize}, AddedChunks)
    \/ \E id \in DOMAIN store : StartDownloadUpTo(id, EventJobs)
    \/ Pause
    \/ Cancel
    \/ ProcessQueueUpTo(EventJobs)
    \/ UpdateStats
    \/ RunnerCommon
    \/ RunnerSingle

SpecEvents == Init /\ [][NextEvents]_vars

\* AddDownload, succeeding and failing, with the admission loop and the
\* runners.
NextAdd ==
    \/ AddDownloadUpTo(AddRecords, {SmallSize}, AddedChunks)
    \/ AddDownloadRefused
    \/ ProcessQueueUpTo(AddRecords)
    \/ RunnerCommon
    \/ RunnerSingleExact

SpecAdd == Init /\ [][NextAdd]_vars

\* The store alone, under a caller's round trip.
NextStore ==
    \/ TripSave(StoreRecords)
    \/ TripLoad
    \/ TripUpdate
    \/ TripReload

SpecStore == Init /\ [][NextStore]_vars

\* The lifecycle with the statistics loop taken one statement at a time.
NextStats ==
    \/ AddDownloadUpTo(StatsRecords, {SmallSize}, AddedChunks)
    \/ \E id \in DOMAIN store : StartDownloadUpTo(id, StatsJobs)
    \/ Pause
    \/ Cancel
    \/ ProcessQueueUpTo(StatsJobs)
    \/ StatsLoop
    \/ RunnerCommon
    \/ RunnerSingleExact

SpecStats == Init /\ [][NextStats]_vars

\* The rate limiter alone.
NextLimiter ==
    \/ NewLimiter
    \/ LimiterStart
    \/ LimiterTick

SpecLimiter == Init /\ [][NextLimiter]_vars

\* The range arithmetic of downloadWithChunks alone.
NextLayout == BuildLayout

SpecLayout == Init /\ [][NextLayout]_vars

\* -------------------------------------------------------------- claims
\* A runner is live from the go statement that launches it until it returns.
Live(j) == jobs[j].pc /= "done"
LiveJobs == {j \in JobIds : Live(j)}

\* C1: for every id at most one runner is live at any time; two starts on
\* the same id never both launch a runner.
C1_OneLiveRunnerPerId ==
    \A j1, j2 \in LiveJobs : jobs[j1].id = jobs[j2].id => j1 = j2

\* C2: with the admission loop as the only starter, the number of live jobs
\* never exceeds MaxConcurrentDownloads.
C2_AdmissionWithinBudget ==
    Cardinality(LiveJobs) <= MaxConcurrentDownloads

\* C3: the terminal transition of a runner whose transfer ended with the
\* context's cancellation error yields Paused or Cancelled, never Failed.
C3_CancelledNeverFailed ==
    [][\A j \in JobIds :
          (/\ jobs[j].pc = "finish"
           /\ jobs[j].err = "canceled"
           /\ jobs'[j].pc = "unregister")
          => /\ jobs'[j].d.Status \in {"Paused", "Cancelled"}
             /\ store'[jobs[j].id].Status \in {"Paused", "Cancelled"}]_vars

\* C4: a job paused during its transfer, with no start or cancel after the
\* pause and no other runner of the record alive, has returned: the row is
\* Paused, its downloaded counter is the one the transfer reached, and the
\* file exists.
C4_PausedStaysPaused ==
    \A j \in JobIds :
        (/\ jobs[j].pc = "done"
         /\ jobs[j].signal = "pause"
         /\ jobs[j].midTransfer
         /\ lastOp[jobs[j].id] = "pause"
         /\ \A k \in LiveJobs : jobs[k].id /= jobs[j].id)
        => /\ store[jobs[j].id].Status = "Paused"
           /\ store[jobs[j].id].Downloaded = jobs[j].d.Downloaded
           /\ files[jobs[j].id]

\* C5: a job cancelled by CancelDownload at any point of its execution, with
\* no operation on the record after the cancel, has returned with all its
\* chunk tasks: the row is Cancelled and no file exists at path/filename.
C5_CancelledAndFileRemoved ==
    \A j \in JobIds :
        (/\ jobs[j].pc = "done"
         /\ jobs[j].signal = "cancel"
         /\ lastOp[jobs[j].id] = "cancel"
         /\ \A k \in LiveJobs : jobs[k].id /= jobs[j].id)
        => /\ store[jobs[j].id].Status = "Cancelled"
           /\ ~files[jobs[j].id]

\* C6: 0 <= downloaded, and downloaded <= total_size when total_size > 0,
\* for every row and every record a job holds.
DownloadedInRange(downloaded, size) ==
    /\ 0 <= downloaded
    /\ size > 0 => downloaded <= size

C6_DownloadedWithinSize ==
    /\ \A id \in DOMAIN store : DownloadedInRange(store[id].Downloaded, store[id].Size)
    /\ \A j \in JobIds : DownloadedInRange(jobs[j].d.Downloaded, jobs[j].size)

\* C7: a Completed record has completed_at set and, when total_size > 0,
\* downloaded = total_size.
CompletedIsWhole(r, size) ==
    r.Status = "Completed" =>
        /\ r.CompletedAt
        /\ size > 0 => r.Downloaded = size

C7_CompletedMeansWhole ==
    /\ \A id \in DOMAIN store : CompletedIsWhole(store[id], store[id].Size)
    /\ \A j \in JobIds : CompletedIsWhole(jobs[j].d, jobs[j].size)

\* C8: progress = 100.0 exactly when status = Completed, for every row and
\* every record a job holds.
FullIffCompleted(r) == IsFull(r.Progress) <=> r.Status = "Completed"

C8_FullProgressIffCompleted ==
    /\ \A id \in DOMAIN store : FullIffCompleted(store[id])
    /\ \A j \in JobIds : FullIffCompleted(jobs[j].d)

\* C9: every record whose status is Downloading, in the store or in a live
\* job's memory, has a live job registered under its id.
HasRegisteredLiveJob(id) ==
    /\ id \in DOMAIN downloads
    /\ Live(downloads[id])

C9_DownloadingHasJob ==
    /\ \A id \in DOMAIN store :
          store[id].Status = "Downloading" => HasRegisteredLiveJob(id)
    /\ \A j \in LiveJobs :
          jobs[j].d.Status = "Downloading" => HasRegisteredLiveJob(jobs[j].id)

\* C10: in a ranged download the chunks' downloaded counters add up to the
\* job's downloaded counter in every state.
ChunkDownloaded(job) == [c \in 1..Len(job.chunks) |-> job.chunks[c].downloaded]

C10_ChunkSumIsAggregate ==
    \A j \in JobIds :
        jobs[j].chunks /= <<>> =>
            SumSeq(ChunkDownloaded(jobs[j])) = jobs[j].d.Downloaded

C12_EveryRecordCompletes ==
    \A id \in 0..(LiveRecords - 1) :
        [](id \in DOMAIN store =>
              <>(id \in DOMAIN store /\ store[id].Status = "Completed"))

\* C13: every change of a row's status is a transition of the record state
\* machine.
Transitions ==
    {<<"Pending", "Downloading">>, <<"Downloading", "Completed">>,
     <<"Downloading", "Failed">>, <<"Downloading", "Paused">>,
     <<"Downloading", "Cancelled">>, <<"Paused", "Downloading">>,
     <<"Failed", "Downloading">>}

C13_StatusFollowsMachine ==
    [][\A id \in DOMAIN store :
          store'[id].Status /= store[id].Status =>
              <<store[id].Status, store'[id].Status>> \in Transitions]_vars

\* C14: StartDownload on an id with no row or on a row that is Downloading,
\* and PauseDownload on an id with no live job, return an error, leave the
\* store, the registry, the queue and the counter unchanged and launch no
\* runner.
HasRow(id) == id \in DOMAIN store
HasLiveJob(id) == \E j \in LiveJobs : jobs[j].id = id

RefusedCallsStep ==
    /\ \A id \in CallIds :
          \* the calls of the claim are the ones the code refuses
          /\ (~HasRow(id) \/ (HasRow(id) /\ store[id].Status = "Downloading"))
                => ~StartDownloadOk(id)
          /\ ~HasLiveJob(id) => id \notin DOMAIN downloads
    \* a call that returns an error changes nothing
    /\ ret' /= ret =>
          UNCHANGED <<store, downloads, queue, activeDownloads, jobs>>
    \* a runner launched by a caller is launched on a row that is not Downloading
    /\ (Len(jobs') > Len(jobs) /\ queue' = queue) =>
          /\ HasRow(jobs'[Len(jobs')].id)
          /\ store[jobs'[Len(jobs')].id].Status /= "Downloading"
    \* a row becomes Paused only when its id has a live job
    /\ \A id \in DOMAIN store :
          (store[id].Status /= "Paused" /\ store'[id].Status = "Paused")
              => HasLiveJob(id)

C14_RefusedCallsChangeNothing == [][RefusedCallsStep]_vars

\* C14's case: StartDownload has just been refused on a row that is
\* Downloading.
C14_Witness ==
    /\ ret = [op |-> "StartDownload", id |-> 0]
    /\ HasRow(0)
    /\ store[0].Status = "Downloading"
    /\ HasLiveJob(0)

\* C15: a successful AddDownload leaves exactly one new row, Pending with
\* downloaded 0 and chunks 4, and its record exactly once in the queue, at
\* the tail; a failed AddDownload inserts no row and leaves the queue as it
\* was.
AddedRow(id) ==
    /\ DOMAIN store' = DOMAIN store \cup {id}
    /\ \A i \in DOMAIN store : store'[i] = store[i]
    /\ store'[id].Status = "Pending"
    /\ store'[id].Downloaded = 0
    /\ store'[id].Chunks = 4
    /\ Len(queue') = Len(queue) + 1
    /\ SubSeq(queue', 1, Len(queue)) = queue
    /\ queue'[Len(queue')].ID = id
    /\ Cardinality({k \in 1..Len(queue') : queue'[k].ID = id}) = 1

AddDownloadStep ==
    /\ DOMAIN store' /= DOMAIN store =>
          \E id \in DOMAIN store' \ DOMAIN store : AddedRow(id)
    /\ (ret' /= ret /\ ret'.op = "AddDownload") => UNCHANGED <<store, queue>>

C15_AddDownloadRowAndQueue == [][AddDownloadStep]_vars

\* C15's case: a third record has been added behind two queued ones, after
\* an AddDownload that failed.
C15_Witness ==
    /\ ret.op = "AddDownload"
    /\ Len(queue) = 3
    /\ queue[3].ID = 2
    /\ store[2].Status = "Pending"

\* C16: the row a runner persists when its transfer succeeded is Completed
\* with progress 100.0, completed_at set and an empty error, also for a
\* record that was Failed before this start.
C16_SuccessClearsError ==
    [][\A j \in JobIds :
          (/\ jobs[j].pc = "finish"
           /\ jobs[j].err = "none"
           /\ jobs'[j].pc = "unregister")
          => /\ store'[jobs[j].id].Status = "Completed"
             /\ IsFull(store'[jobs[j].id].Progress)
             /\ store'[jobs[j].id].CompletedAt
             /\ store'[jobs[j].id].Error = ""]_vars

\* C17: every row that is Failed or Cancelled has a non-empty error, and so
\* has every event launched with a Failed or Cancelled record.
HasError(r) == r.Error /= "" /\ r.Error /= Null

C17_TerminalFailureHasError ==
    /\ \A id \in DOMAIN store :
          store[id].Status \in {"Failed", "Cancelled"} => HasError(store[id])
    /\ \A e \in events :
          e.Status \in {"Failed", "Cancelled"} => HasError(e)

\* C18: SaveDownload, GetDownload, UpdateDownload, GetDownload on any record
\* succeeds at each step, and both loads give the record first persisted,
\* field by field.
C18_StoreRoundTrip ==
    /\ trip.pc /= "error"
    /\ trip.pc \in {"loaded", "updated", "reloaded"} => trip.got = trip.first
    /\ trip.pc = "reloaded" => trip.again = trip.first

\* C19: a step that changes a row's status, or inserts the row, launches for
\* every subscriber registered before it an event with the record in its
\* new status.
StatusChanged(id) ==
    \/ id \notin DOMAIN store
    \/ store'[id].Status /= store[id].Status

C19_StatusChangeEmitsEvent ==
    [][\A id \in DOMAIN store' :
          StatusChanged(id) =>
              \A cb \in 1..callbacks :
                  \E e \in events' :
                      e.cb = cb /\ e.id = id /\ e.Status = store'[id].Status]_vars

\* C20: the admission loop starts a record only when the row's status is
\* Pending.
C20_AdmissionStartsOnlyPending ==
    [][(Len(queue') < Len(queue) /\ Len(jobs') > Len(jobs)) =>
          store[jobs'[Len(jobs')].id].Status = "Pending"]_vars

\* C21: for every size above the threshold and every chunk count from 1 to
\* MaxChunks the ranges downloadWithChunks builds are non-empty, pairwise
\* disjoint, contiguous in index order and cover exactly 0..size-1; every
\* range but the last has length size div chunks, the last has that length
\* plus the remainder.
RangeLen(ch) == ch.end - ch.start + 1

C21_RangesPartitionFile ==
    LET ch == layout.chunks
        n == Len(ch)
        size == layout.size
    IN n > 0 =>
        /\ \A i \in 1..n : ch[i].start <= ch[i].end
        /\ \A i, k \in 1..n : i < k => ch[i].end < ch[k].start
        /\ ch[1].start = 0
        /\ \A i \in 1..(n - 1) : ch[i + 1].start = ch[i].end + 1
        /\ ch[n].end = size - 1
        /\ \A i \in 1..(n - 1) : RangeLen(ch[i]) = size \div n
        /\ RangeLen(ch[n]) = (size \div n) + (size % n)

\* The most chunks, a size they do not divide, just above the smallest
\* threshold.
C21_Witness ==
    /\ Len(layout.chunks) = MaxChunks
    /\ layout.size % MaxChunks /= 0
    /\ layout.size < ChunkSize

\* C22: every byte a chunk task has written to the shared file lies inside
\* the chunk's own range, whatever length the body of the ranged response
\* has; the bytes written by different chunks of a job do not overlap.  (A
\* task writes each read at start+downloaded, so the bytes it has written
\* are start .. start+downloaded-1.)
LastWritten(ch) == ch.start + ch.downloaded - 1

C22_WritesInsideOwnRange ==
    \A j \in JobIds :
        /\ \A c \in 1..Len(jobs[j].chunks) :
              LastWritten(jobs[j].chunks[c]) <= jobs[j].chunks[c].end
        /\ \A c1, c2 \in 1..Len(jobs[j].chunks) :
              c1 < c2 => LastWritten(jobs[j].chunks[c1]) < jobs[j].chunks[c2].start

\* C23: in a ranged download, once a chunk task has returned an error that
\* is not the cancellation error, the job's context is cancelled, so that no
\* other chunk task of the job reads on; the job's error is the first error
\* reported.
SiblingFailed(j) ==
    \E c \in 1..Len(jobs[j].chunks) : jobs[j].chunks[c].res = "network"

ChunkErrorStep ==
    \A j \in JobIds :
        /\ (~SiblingFailed(j) /\ j \in DOMAIN jobs' /\ SiblingFailed(j)')
              => jobs'[j].cancelled
        /\ SiblingFailed(j) =>
              \A c \in 1..Len(jobs[j].chunks) :
                  jobs'[j].chunks[c].downloaded = jobs[j].chunks[c].downloaded
        /\ (jobs[j].pc = "wait" /\ jobs'[j].pc = "finish" /\ jobs[j].errChan /= <<>>)
              => jobs'[j].err = Head(jobs[j].errChan)

C23_ChunkErrorCancelsJob == [][ChunkErrorStep]_vars

\* C24: a runner performs its terminal transition only after every chunk
\* task it spawned has returned: from the moment the runner has left
\* downloadWithChunks (and so when it persists Completed or Failed, notifies
\* and unregisters) none of its chunk tasks is still running.
ChunksReturned(j) ==
    \A c \in 1..Len(jobs[j].chunks) : jobs[j].chunks[c].pc = "done"

C24_TerminalAfterAllChunks ==
    \A j \in JobIds :
        jobs[j].pc \in {"finish", "unregister", "done"} => ChunksReturned(j)

\* A ranged runner has persisted its terminal status: one chunk task failed,
\* another read its body to the end.
C24_Witness ==
    \E j \in JobIds :
        /\ jobs[j].pc = "unregister"
        /\ jobs[j].d.Status = "Failed"
        /\ \E c1, c2 \in 1..Len(jobs[j].chunks) :
              /\ jobs[j].chunks[c1].res = "network"
              /\ jobs[j].chunks[c2].res = "ok"
              /\ jobs[j].chunks[c2].downloaded > 0

\* C25: whatever the record's id, the range probe of a runner yields a
\* decision (ranged mode or single-stream mode) and never aborts the
\* runner: no runner is left at the probe by a process that has ended, with
\* its record Downloading.
C25_ProbeAlwaysDecides ==
    \A j \in JobIds :
        jobs[j].pc = "probe" => ~crashed

\* C26: a background loop that is inside a store write (or dispatching
\* events) does not hold the registry lock, so that a runner's insertion
\* into or removal from the registry never waits for a store write.
C26_NoStoreWriteUnderLock ==
    stats.pc = "write" => ~stats.rlock

\* C27: once a runner has persisted its terminal status, a store write by
\* the statistics loop for that job does not leave the row Downloading, nor
\* with a progress other than the one the runner persisted.
StaleWriteStep ==
    (/\ stats.pc = "write"
     /\ stats'.pc /= "write"
     /\ jobs[stats.j].pc \in {"unregister", "done"}
     /\ jobs[stats.j].d.Status \in {"Completed", "Failed"})
    => /\ store'[jobs[stats.j].id].Status /= "Downloading"
       /\ store'[jobs[stats.j].id].Progress = jobs[stats.j].d.Progress

C27_NoStaleStatsWrite == [][StaleWriteStep]_vars

\* C28: for every limit the manager passes when MaxSpeed is above 0 (MaxSpeed
\* in single-stream mode, MaxSpeed div chunks in ranged mode, limits below
\* 1024 included) the limiter is built without error and releases permits
\* at ceil(limit / 1024) per second, which is at least 1.
CeilDiv(a, b) == (a + b - 1) \div b

PermitsPerSecond(period) == Second \div period

C28_LimiterRate ==
    /\ limiter.pc /= "panic"
    /\ limiter.pc = "ticking" =>
          /\ PermitsPerSecond(limiter.period) = CeilDiv(limiter.limit, LimiterUnit)
          /\ PermitsPerSecond(limiter.period) >= 1
          /\ limiter.permits <= PermitsPerSecond(limiter.period)

\* C29: once a job's context is cancelled, a fetcher that reaches the top
\* of its loop starts no new read: it finishes at most the read and write
\* that were in flight (the pending addition to the job's counter) and
\* returns the cancellation error.
AtLoopTop(j, c) == jobs[j].chunks[c].pc = "loop"

CancelledFetchStep ==
    \A j \in JobIds :
        jobs[j].cancelled =>
            /\ \A c \in 1..Len(jobs[j].chunks) :
                  /\ jobs'[j].chunks[c].downloaded = jobs[j].chunks[c].downloaded
                  /\ (AtLoopTop(j, c) /\ jobs'[j].chunks[c] /= jobs[j].chunks[c])
                        => /\ jobs'[j].chunks[c].pc = "done"
                           /\ jobs'[j].chunks[c].res = "canceled"
            /\ (/\ jobs[j].pc = "stream"
                /\ (jobs'[j].pc /= "stream" \/ jobs'[j].body /= jobs[j].body))
                  => /\ jobs'[j].pc = "finish"
                     /\ jobs'[j].err = "canceled"
                     /\ jobs'[j].d.Downloaded = jobs[j].d.Downloaded

C29_CancelStopsFetchLoops == [][CancelledFetchStep]_vars

\* A chunk task was stopped by the cancellation after it had read, and the
\* runner has joined.
C29_Witness ==
    \E j \in JobIds :
        /\ jobs[j].pc = "finish"
        /\ \E c \in 1..Len(jobs[j].chunks) :
              /\ jobs[j].chunks[c].res = "canceled"
              /\ jobs[j].chunks[c].downloaded > 0

\* C30: when a record is paused and started again while the previous runner
\* is still unwinding, the previous runner's completion touches only its
\* own job: it does not remove the registry entry of the new job and does
\* not overwrite the Downloading status the new run persisted.
Superseded(j) ==
    /\ jobs[j].signal = "pause"
    /\ jobs[j].id \in DOMAIN downloads
    /\ downloads[jobs[j].id] /= j

OldRunnerStep ==
    \A j \in JobIds :
        Superseded(j) =>
            /\ (jobs[j].pc = "unregister" /\ jobs'[j].pc = "done")
                  => /\ jobs[j].id \in DOMAIN downloads'
                     /\ downloads'[jobs[j].id] = downloads[jobs[j].id]
            /\ (/\ jobs[j].pc = "finish"
                /\ jobs'[j].pc = "unregister"
                /\ jobs[downloads[jobs[j].id]].d.Status = "Downloading"
                /\ store[jobs[j].id].Status = "Downloading")
                  => store'[jobs[j].id].Status = "Downloading"

C30_OldRunnerLeavesNewJob == [][OldRunnerStep]_vars

\* C31: in downloadWithChunks no chunk task blocks when it reports its
\* error and the join completes: every task that returned an error has sent
\* exactly one, errChan never holds more than its capacity, the runner
\* leaves the join only after all tasks have returned, and its result is
\* nil exactly when no task reported an error.
Reported(j) ==
    {c \in 1..Len(jobs[j].chunks) :
        jobs[j].chunks[c].pc = "done" /\ jobs[j].chunks[c].res /= "ok"}

ErrChanSound ==
    \A j \in JobIds :
        /\ \A c \in 1..Len(jobs[j].chunks) : jobs[j].chunks[c].pc /= "blocked"
        /\ Len(jobs[j].errChan) = Cardinality(Reported(j))
        /\ Len(jobs[j].errChan) <= ErrChanCap(jobs[j])
        /\ (jobs[j].chunks /= <<>> /\ jobs[j].pc \in {"finish", "unregister", "done"})
              => /\ \A c \in 1..Len(jobs[j].chunks) : jobs[j].chunks[c].pc = "done"
                 /\ (jobs[j].err = "none") <=> (Reported(j) = {})

C31_ErrorReportNeverBlocks ==
    /\ []ErrChanSound
    /\ \A j \in 1..RangedJobs :
          (j \in JobIds /\ jobs[j].pc = "wait")
              ~> (crashed \/ (j \in JobIds /\ jobs[j].pc = "finish"))

\* Every chunk task of a job reported an error (the channel is full) and
\* the runner has left the join with the first of them.
C31_Witness ==
    \E j \in JobIds :
        /\ jobs[j].pc = "finish"
        /\ jobs[j].chunks /= <<>>
        /\ Len(jobs[j].errChan) = ErrChanCap(jobs[j])
        /\ jobs[j].err = Head(jobs[j].errChan)

====
